---- MODULE Spec2Model ----
(***************************************************************************)
(* Model of the mj-backend relay: the WhatsApp report dispatch handler     *)
(* (sendWhatsAppReport) with its per-IP audit quota, and the PageSpeed     *)
(* relay route with its retry loop.                                        *)
(*                                                                         *)
(* Node runs one handler segment at a time: a handler runs without         *)
(* interruption from its entry, or from the resumption of an await, up to  *)
(* its next await or its return.  Every action below is one such segment.  *)
(***************************************************************************)
EXTENDS Integers, Sequences, FiniteSets, TLC

(***************************************************************************)
(* Program constants                                                       *)
(***************************************************************************)
AUDIT_LIMIT == 3

MaxPhoneNumbers == 3

maxRetries == 3

(***************************************************************************)
(* Bounds of the model                                                     *)
(***************************************************************************)
\* how far beyond the limit of three the phoneNumbers arrays go
MaxOverLimit == 1

\* number of client addresses (quota keys)
NumKeys == 2

\* the per-window tally of charged requests saturates here
MaxAccepted == 4

\* longest phoneNumbers array of the overlapping requests
MaxRaceLen == 1

\* most digits of the phone numbers normalized on their own
MaxDigits == 16

Keys == 1..NumKeys

\* request slots of the dispatch handler: the requests that may be in flight
\* at the same time; a slot is reused once its request has been answered
Req == {1, 2}

(***************************************************************************)
(* Phone numbers are sequences of characters.                              *)
(***************************************************************************)
Digits == {"0", "1", "2", "3", "4", "5", "6", "7", "8", "9"}

RECURSIVE StripNonDigits(_)
\* phoneNumber.toString().replace(/\D/g, "")
StripNonDigits(s) ==
    IF s = << >> THEN << >>
    ELSE IF Head(s) \in Digits THEN <<Head(s)>> \o StripNonDigits(Tail(s))
         ELSE StripNonDigits(Tail(s))

\* the result null of formatPhoneNumber
Null == <<"null">>

\* formatPhoneNumber raising a TypeError instead of returning
Thrown == <<"TypeError">>

\* A phone number that is no string: a JSON object with an own property
\* "toString" that is not a function, such as {"toString": 1}.  It is truthy,
\* and phoneNumber.toString() raises "toString is not a function".
NoNumberText == <<"{toString:1}">>

\* formatPhoneNumber with the upper limit of the digit count one too high
formatPhoneNumberWide(phoneNumber) ==
    IF phoneNumber = << >> THEN Null
    ELSE IF phoneNumber = NoNumberText THEN Thrown
    ELSE LET clean == StripNonDigits(phoneNumber) IN
         IF Len(clean) < 10 \/ Len(clean) > 16 THEN Null
         ELSE IF Len(clean) > 10 THEN clean
         ELSE IF Len(clean) = 10 /\ clean[1] \in {"6", "7", "8", "9"}
              THEN <<"9", "1">> \o clean
         ELSE clean

formatPhoneNumber(phoneNumber) ==
    IF phoneNumber = << >> THEN Null
    ELSE IF phoneNumber = NoNumberText THEN Thrown
    ELSE LET clean == StripNonDigits(phoneNumber) IN
         IF Len(clean) < 10 \/ Len(clean) > 15 THEN Null
         ELSE IF Len(clean) > 10 THEN clean
         ELSE IF Len(clean) = 10 /\ clean[1] \in {"6", "7", "8", "9"}
              THEN <<"9", "1">> \o clean
         ELSE IF Len(clean) = 11 /\ clean[1] = "0"
              THEN <<"9", "1">> \o Tail(clean)
         ELSE clean

\* The arguments of the calls of formatPhoneNumber that are checked on their
\* own: strings of 0 to MaxDigits digits with every kind of leading digit,
\* bare or written with a plus sign, a dash, a blank or brackets.
Leads == {"0", "1", "5", "6", "7", "8", "9"}

DigitString(n, first, second) ==
    [i \in 1..n |-> IF i = 1 THEN first ELSE IF i = 2 THEN second ELSE "3"]

Writings == {"bare", "plus", "dash", "blank", "brackets"}

Written(s, w) ==
    IF w = "plus" THEN <<"+">> \o s
    ELSE IF w = "dash" /\ Len(s) >= 2
         THEN SubSeq(s, 1, 2) \o <<"-">> \o SubSeq(s, 3, Len(s))
    ELSE IF w = "blank" THEN s \o <<" ">>
    ELSE IF w = "brackets" /\ Len(s) >= 2
         THEN <<"(">> \o SubSeq(s, 1, 2) \o <<")">> \o SubSeq(s, 3, Len(s))
    ELSE s

PhoneInputs ==
    {Written(DigitString(n, first, second), w) :
        n \in 0..MaxDigits, first \in Leads, second \in {"1", "9"}, w \in Writings}
    \cup {<<"9", "8", "7", "6", "5", "4", "3", "2", "1", "0">>,
          <<"0", "9", "8", "7", "6", "5", "4", "3", "2", "1", "0">>,
          <<"9", "1", "9", "8", "7", "6", "5", "4", "3", "2", "1", "0">>,
          <<"1", "2", "3", "4", "5">>}

(***************************************************************************)
(* Request bodies of POST /send-whatsapp-report                            *)
(***************************************************************************)
\* a ten-digit mobile number, a five-digit string that does not normalize, and
\* the object whose normalization throws
MobileNumber == <<"9", "8", "7", "6", "5", "4", "3", "2", "1", "0">>

ShortNumber == <<"1", "2", "3", "4", "5">>

SampleNumbers == {MobileNumber, ShortNumber, NoNumberText}

SeqsUpTo(S, n) == UNION {[1..m -> S] : m \in 0..n}

\* reportData as the handler and the formatter see it:
\*   "undefined"   the field is absent (or null)
\*   "emptyString" the field is ""            (falsy)
\*   "emptyObject" the field is {}            (truthy, every default applies)
\*   "report"      a well-formed audit payload
\*   "badMetrics"  an object whose metrics.fcp is not a number, so that
\*                 fcp.toFixed(2) raises a TypeError in the formatter
ReportDatas == {"undefined", "emptyString", "emptyObject", "report", "badMetrics"}

\* JavaScript truthiness of reportData
Truthy(reportData) == reportData \notin {"undefined", "emptyString"}

\* formatSEOReportMessage returns the text, or throws
formatSEOReportMessage(reportData) ==
    IF reportData = "badMetrics" THEN "throw" ELSE "text"

\* the phoneNumbers arrays of the requests: every array within the limit, and
\* the arrays of mobile numbers up to MaxOverLimit elements beyond it
PhoneLists ==
    SeqsUpTo(SampleNumbers, MaxPhoneNumbers)
    \cup {[i \in 1..(MaxPhoneNumbers + n) |-> MobileNumber] : n \in 1..MaxOverLimit}

\* hasPhoneNumbers tells whether the body has a phoneNumbers array at all;
\* phoneNumber = << >> is an absent (or empty) singular phoneNumber
Bodies ==
    [hasPhoneNumbers : {TRUE},
     phoneNumbers    : PhoneLists,
     phoneNumber     : {<< >>},
     reportData      : ReportDatas]
    \cup
    [hasPhoneNumbers : {FALSE},
     phoneNumbers    : {<< >>},
     phoneNumber     : {<< >>} \cup SampleNumbers,
     reportData      : ReportDatas]
    \cup
    [hasPhoneNumbers : {TRUE},
     phoneNumbers    : {<< >>},
     phoneNumber     : {MobileNumber},
     reportData      : {"report"}]

EmptyBody ==
    [hasPhoneNumbers |-> FALSE, phoneNumbers |-> << >>, phoneNumber |-> << >>,
     reportData |-> "undefined"]

(***************************************************************************)
(* Outcomes of one axios.post to the messaging provider                    *)
(*   "sent"     HTTP < 400 and data.status is not "error"                  *)
(*   "apiError" HTTP < 400 and data.status = "error"                       *)
(*   "http4xx"  400 <= HTTP < 500 (validateStatus lets it through)         *)
(*   "throw"    HTTP >= 500, a network error or the 30 s timeout           *)
(***************************************************************************)
DeliveryOutcomes == {"sent", "apiError", "http4xx", "throw"}

(***************************************************************************)
(* State                                                                   *)
(***************************************************************************)
VARIABLES
    auditCounts,   \* the Map clientIP -> count; its DOMAIN is the keys present
    config,        \* CONFIG.ACCESS_TOKEN and CONFIG.INSTANCE_ID are set or not
    req,           \* per slot: the locals and the response of sendWhatsAppReport
    accepted,      \* per key: requests charged since the last reset (saturating)
    afterReject,   \* per key: "just" a 429 was the last step, "pending" a reset
                   \* followed it and the key has sent no request since
    apiKey,        \* GOOGLE_API_KEY is set or not
    relay,         \* the locals and the response of the /pagespeed/run handler
    phone          \* one call of formatPhoneNumber: its argument and its result

IdleReq ==
    [pc |-> "idle", clientIP |-> 0, count |-> 0, body |-> EmptyBody,
     phoneNumbers |-> << >>, results |-> << >>, calls |-> 0,
     status |-> 0, limit |-> 0, current |-> 0, auditsRemaining |-> 0]

\* auditCounts.get(clientIP) || 0
GetCount(clientIP) ==
    IF clientIP \in DOMAIN auditCounts THEN auditCounts[clientIP] ELSE 0

\* auditCounts.set(clientIP, value)
MapSet(map, clientIP, value) ==
    [k \in DOMAIN map \cup {clientIP} |-> IF k = clientIP THEN value ELSE map[k]]

\* auditCounts.clear()
MapClear(map) == << >>

(***************************************************************************)
(* sendWhatsAppReport                                                      *)
(***************************************************************************)
\* let { phoneNumbers, reportData } = req.body;
\* if (!phoneNumbers && req.body.phoneNumber) phoneNumbers = [req.body.phoneNumber];
EffectivePhoneNumbers(body) ==
    IF ~body.hasPhoneNumbers /\ body.phoneNumber # << >>
    THEN <<body.phoneNumber>>
    ELSE body.phoneNumbers

\* Precheck with the input validation moved in front of the quota gate
PrecheckValidationFirst(count, body, cfg) ==
    LET phoneNumbers == EffectivePhoneNumbers(body) IN
    IF Len(phoneNumbers) = 0 \/ ~Truthy(body.reportData) THEN 400
    ELSE IF Len(phoneNumbers) > MaxPhoneNumbers THEN 400
    ELSE IF count >= AUDIT_LIMIT THEN 429
    ELSE IF ~cfg.ACCESS_TOKEN \/ ~cfg.INSTANCE_ID THEN 500
    ELSE IF formatSEOReportMessage(body.reportData) = "throw" THEN 500
    ELSE 0

\* Precheck with the recipient limit off by one (>= for >)
PrecheckOffByOne(count, body, cfg) ==
    LET phoneNumbers == EffectivePhoneNumbers(body) IN
    IF count >= AUDIT_LIMIT THEN 429
    ELSE IF Len(phoneNumbers) = 0 \/ ~Truthy(body.reportData) THEN 400
    ELSE IF Len(phoneNumbers) >= MaxPhoneNumbers THEN 400
    ELSE IF ~cfg.ACCESS_TOKEN \/ ~cfg.INSTANCE_ID THEN 500
    ELSE IF formatSEOReportMessage(body.reportData) = "throw" THEN 500
    ELSE 0

\* Precheck with a gate that lets a count equal to the limit through (> for >=)
PrecheckGateLoose(count, body, cfg) ==
    LET phoneNumbers == EffectivePhoneNumbers(body) IN
    IF count > AUDIT_LIMIT THEN 429
    ELSE IF Len(phoneNumbers) = 0 \/ ~Truthy(body.reportData) THEN 400
    ELSE IF Len(phoneNumbers) > MaxPhoneNumbers THEN 400
    ELSE IF ~cfg.ACCESS_TOKEN \/ ~cfg.INSTANCE_ID THEN 500
    ELSE IF formatSEOReportMessage(body.reportData) = "throw" THEN 500
    ELSE 0

\* The checks between the entry of the handler and the recipient loop, in the
\* order of the code: the status of the early return, or 0 to go on.
Precheck(count, body, cfg) ==
    LET phoneNumbers == EffectivePhoneNumbers(body) IN
    IF count >= AUDIT_LIMIT THEN 429
    ELSE IF Len(phoneNumbers) = 0 \/ ~Truthy(body.reportData) THEN 400
    ELSE IF Len(phoneNumbers) > MaxPhoneNumbers THEN 400
    ELSE IF ~cfg.ACCESS_TOKEN \/ ~cfg.INSTANCE_ID THEN 500
    ELSE IF formatSEOReportMessage(body.reportData) = "throw" THEN 500
    ELSE 0

\* results.push(...) of one recipient
Result(phoneNumber, success) == [phoneNumber |-> phoneNumber, success |-> success]

\* The recipient loop from the recipient after the last result, up to the
\* next axios.post ("awaiting"), to the end of the list ("finished"), or to an
\* exception of formatPhoneNumber, which no try block of the loop encloses
\* ("thrown"): a number that does not normalize gets its failure result at
\* once and the loop goes on.
RECURSIVE RunLoop(_, _)

\* RunLoop without the "continue" of a number that does not normalize: the
\* number is sent to the provider like the others
RunLoopNoSkip(phoneNumbers, results) ==
    IF Len(results) >= Len(phoneNumbers)
    THEN [results |-> results, at |-> "finished"]
    ELSE IF formatPhoneNumber(phoneNumbers[Len(results) + 1]) = Thrown
         THEN [results |-> results, at |-> "thrown"]
         ELSE [results |-> results, at |-> "awaiting"]

RunLoop(phoneNumbers, results) ==
    IF Len(results) >= Len(phoneNumbers)
    THEN [results |-> results, at |-> "finished"]
    ELSE LET number == phoneNumbers[Len(results) + 1]
             formatted == formatPhoneNumber(number)
         IN  IF formatted = Thrown
             THEN [results |-> results, at |-> "thrown"]
             ELSE IF formatted = Null
             THEN RunLoop(phoneNumbers, Append(results, Result(number, FALSE)))
             ELSE [results |-> results, at |-> "awaiting"]

\* the result pushed when the awaited axios.post settles
DeliveryResult(formatted, outcome) == Result(formatted, outcome = "sent")

\* Runs the loop on from the record rec: the next axios.post is issued and
\* the handler awaits it, or the loop is over and the 200 response of lines
\* 303-311 is built, or the exception reaches the catch of line 312.
Advance(rec) ==
    LET loop == RunLoop(rec.phoneNumbers, rec.results) IN
    IF loop.at = "awaiting"
    THEN [rec EXCEPT !.pc = "awaiting", !.results = loop.results, !.calls = @ + 1]
    ELSE IF loop.at = "thrown"
    THEN [rec EXCEPT !.pc = "done", !.results = loop.results, !.status = 500]
    ELSE [rec EXCEPT !.pc = "done", !.results = loop.results, !.status = 200,
                     !.limit = AUDIT_LIMIT,
                     !.auditsRemaining = AUDIT_LIMIT - (rec.count + 1)]

\* The handler from its entry to its first await, or to its response.
Entry(clientIP, count, body, cfg) ==
    LET status == Precheck(count, body, cfg)
        rec == [IdleReq EXCEPT !.clientIP = clientIP, !.count = count, !.body = body]
    IN  IF status = 429
        THEN [rec EXCEPT !.pc = "done", !.status = 429, !.limit = AUDIT_LIMIT,
                         !.current = count]
        ELSE IF status # 0
        THEN [rec EXCEPT !.pc = "done", !.status = status]
        ELSE Advance([rec EXCEPT !.phoneNumbers = EffectivePhoneNumbers(body)])

\* The handler from the settling of the axios.post it awaits to its next
\* await, or to its response: every outcome, an exception included, pushes
\* one result and the loop goes on.
Settle(cur, outcome) ==
    LET formatted == formatPhoneNumber(cur.phoneNumbers[Len(cur.results) + 1]) IN
    Advance([cur EXCEPT !.results = Append(@, DeliveryResult(formatted, outcome))])

\* CountsAfterSegment charging the delivery calls made, not the request
CountsAfterSegmentPerCall(map, rec) ==
    IF rec.pc = "done" /\ rec.status = 200
    THEN MapSet(map, rec.clientIP, rec.count + rec.calls)
    ELSE map

\* The map after a segment that left the request in rec: line 303 runs on the
\* path that ends in the 200 response and nowhere else, and it writes the
\* count read at entry plus one.
CountsAfterSegment(map, rec) ==
    IF rec.pc = "done" /\ rec.status = 200
    THEN MapSet(map, rec.clientIP, rec.count + 1)
    ELSE map

\* a request of clientIP arrives in slot r and runs to its first await
Dispatch(r, clientIP, body) ==
    /\ req[r].pc = "idle"
    /\ LET rec == Entry(clientIP, GetCount(clientIP), body, config) IN
        /\ req' = [req EXCEPT ![r] = rec]
        /\ auditCounts' = CountsAfterSegment(auditCounts, rec)
    /\ UNCHANGED <<config, apiKey, relay, phone>>

\* the axios.post awaited by slot r settles and the handler runs on
DeliveryReturns(r, outcome) ==
    /\ req[r].pc = "awaiting"
    /\ LET rec == Settle(req[r], outcome) IN
        /\ req' = [req EXCEPT ![r] = rec]
        /\ auditCounts' = CountsAfterSegment(auditCounts, rec)
    /\ UNCHANGED <<config, apiKey, relay, phone>>

\* the response of slot r has been sent: the handler has returned, its locals
\* are gone and the slot can take the next request
Release(r) ==
    /\ req[r].pc = "done"
    /\ req' = [req EXCEPT ![r] = IdleReq]
    /\ UNCHANGED <<auditCounts, config, apiKey, relay, phone>>

\* setInterval(() => auditCounts.clear(), CONFIG.RESET_INTERVAL)
Reset ==
    /\ auditCounts' = MapClear(auditCounts)
    /\ UNCHANGED <<config, req, apiKey, relay, phone>>

(***************************************************************************)
(* formatPhoneNumber called on its own                                     *)
(***************************************************************************)
IdlePhone == [pc |-> "idle", input |-> << >>, output |-> << >>]

\* const formatted = formatPhoneNumber(number)
Format ==
    /\ phone.pc = "called"
    /\ phone' = [phone EXCEPT !.pc = "returned",
                               !.output = formatPhoneNumber(phone.input)]
    /\ UNCHANGED <<auditCounts, config, req, accepted, afterReject, apiKey, relay>>

(***************************************************************************)
(* router.post("/pagespeed/run")                                           *)
(***************************************************************************)
\* Error messages are sequences of characters, so that
\* error.message.includes("403") is a search for a substring.
Includes(message, part) ==
    \E i \in 1..(Len(message) - Len(part) + 1) :
        SubSeq(message, i, i + Len(part) - 1) = part

DigitChar == <<"0", "1", "2", "3", "4", "5", "6", "7", "8", "9">>

\* the decimal digits of n, as a template literal prints them
RECURSIVE NumberText(_)
NumberText(n) ==
    IF n < 10 THEN <<DigitChar[n + 1]>>
    ELSE NumberText(n \div 10) \o <<DigitChar[(n % 10) + 1]>>

\* url and strategy of the request body; "" stands for an absent field
Urls == {"", "example.com", "https://example.com"}

Strategies == {"", "mobile", "desktop", "tablet", "Mobile"}

\* new URL(url) returns for an absolute URL and throws for anything else
ParsesAsURL(url) == url = "https://example.com"

\* The ways one axios.get ends.  status 0: no HTTP response, axios rejects
\* with the message of the network error or of the 60 s timeout.  Otherwise
\* the HTTP status, with the error.message of the response body (<< >> if the
\* body has none); response.data is an object, as the provider returns it.
NoMessage == << >>

QuotaMessage == <<"Q", "u", "o", "t", "a", " ", "e", "x", "c", "e", "e", "d", "e", "d">>

Code401Message == <<"c", "o", "d", "e", " ", "4", "0", "1">>

TimeoutMessage == <<"t", "i", "m", "e", "o", "u", "t", " ", "o", "f", " ", "6", "0", "0", "0", "0", "m", "s", " ", "e", "x", "c", "e", "e", "d", "e", "d">>

AddressMessage == <<"c", "o", "n", "n", "e", "c", "t", " ", "E", "T", "I", "M", "E", "D", "O", "U", "T", " ", "2", "a", "0", "0", ":", "1", "4", "5", "0", ":", "4", "0", "1", "3", ":", ":", "5", "f", ":", "4", "4", "3">>

UpstreamStatuses == {200, 400, 401, 403, 404, 500, 503}

UpstreamOutcomes ==
    [status : {0}, message : {TimeoutMessage, AddressMessage}]
    \cup [status : UpstreamStatuses, message : {NoMessage, QuotaMessage, Code401Message}]

\* validateStatus: (status) => status < 500; axios rejects the others with
\* "Request failed with status code N"
AxiosRejects(outcome) == outcome.status = 0 \/ outcome.status >= 500

AxiosErrorMessage(outcome) ==
    IF outcome.status = 0 THEN outcome.message
    ELSE <<"R", "e", "q", "u", "e", "s", "t", " ", "f", "a", "i", "l", "e", "d", " ", "w", "i", "t", "h", " ", "s", "t", "a", "t", "u", "s", " ", "c", "o", "d", "e", " ">> \o NumberText(outcome.status)

\* response.data.error?.message || `API returned status ${response.status}`
ApiErrorMessage(outcome) ==
    IF outcome.message # NoMessage THEN outcome.message
    ELSE <<"A", "P", "I", " ", "r", "e", "t", "u", "r", "n", "e", "d", " ", "s", "t", "a", "t", "u", "s", " ">> \o NumberText(outcome.status)

\* Classify without the early return of status 403: the response falls
\* through to the test status >= 400
ClassifyNo403(outcome) ==
    IF AxiosRejects(outcome)
    THEN [throws |-> TRUE, status |-> 0, message |-> AxiosErrorMessage(outcome)]
    ELSE IF outcome.status = 400
    THEN [throws |-> FALSE, status |-> 400, message |-> NoMessage]
    ELSE IF outcome.status >= 400
    THEN [throws |-> TRUE, status |-> 0, message |-> ApiErrorMessage(outcome)]
    ELSE [throws |-> FALSE, status |-> 200, message |-> NoMessage]

\* What the body of the try block does with the outcome of the axios.get:
\* it returns a response with a status, or it throws an error.
Classify(outcome) ==
    IF AxiosRejects(outcome)
    THEN [throws |-> TRUE, status |-> 0, message |-> AxiosErrorMessage(outcome)]
    ELSE IF outcome.status = 403
    THEN [throws |-> FALSE, status |-> 403, message |-> NoMessage]
    ELSE IF outcome.status = 400
    THEN [throws |-> FALSE, status |-> 400, message |-> NoMessage]
    ELSE IF outcome.status >= 400
    THEN [throws |-> TRUE, status |-> 0, message |-> ApiErrorMessage(outcome)]
    ELSE [throws |-> FALSE, status |-> 200, message |-> NoMessage]

\* IsAuthError looking for "403" only
IsAuthErrorOnly403(message) == Includes(message, <<"4", "0", "3">>)

\* error.message.includes("403") || error.message.includes("401")
IsAuthError(message) ==
    Includes(message, <<"4", "0", "3">>) \/ Includes(message, <<"4", "0", "1">>)

\* WaitTime with the exponent off by one: 2 s, 4 s
WaitTimeDoubled(attempt) == (2 ^ attempt) * 1000

\* Math.pow(2, attempt - 1) * 1000
WaitTime(attempt) == (2 ^ (attempt - 1)) * 1000

IdleRelay ==
    [pc |-> "idle", url |-> "", strategy |-> "", attempt |-> 0, calls |-> 0,
     log |-> << >>, outcomes |-> << >>, waits |-> << >>, status |-> 0,
     lastError |-> NoMessage]

\* RelayPrecheck without the test of the strategy against the two names
RelayPrecheckAnyStrategy(url, strategy, key) ==
    IF url = "" \/ strategy = "" THEN 400
    ELSE IF ~ParsesAsURL(url) THEN 400
    ELSE IF ~key THEN 500
    ELSE 0

\* the validation of the request and the configuration check: the status of
\* the early return, or 0 to go on
RelayPrecheck(url, strategy, key) ==
    IF url = "" \/ strategy = "" THEN 400
    ELSE IF strategy \notin {"mobile", "desktop"} THEN 400
    ELSE IF ~ParsesAsURL(url) THEN 400
    ELSE IF ~key THEN 500
    ELSE 0

\* a request arrives: the handler runs to its response or to the axios.get
\* of attempt 1
RelayRequest(url, strategy) ==
    /\ relay.pc = "idle"
    /\ LET status == RelayPrecheck(url, strategy, apiKey)
           rec == [IdleRelay EXCEPT !.url = url, !.strategy = strategy]
       IN  relay' = IF status # 0
                    THEN [rec EXCEPT !.pc = "done", !.status = status]
                    ELSE [rec EXCEPT !.pc = "calling", !.attempt = 1, !.calls = 1]
    /\ UNCHANGED <<auditCounts, config, req, accepted, afterReject, apiKey, phone>>

\* AfterAttempt giving up one attempt early: 503 after the second failure
AfterAttemptOneShort(cur, outcome) ==
    LET c == Classify(outcome)
        logged == [cur EXCEPT !.log = Append(@, outcome.status),
                              !.outcomes = Append(@, outcome)]
    IN  IF ~c.throws
        THEN [logged EXCEPT !.pc = "done", !.status = c.status]
        ELSE IF IsAuthError(c.message)
        THEN [logged EXCEPT !.pc = "done", !.status = 500, !.lastError = c.message]
        ELSE IF cur.attempt < maxRetries - 1
        THEN [logged EXCEPT !.pc = "waiting", !.lastError = c.message,
                            !.waits = Append(@, WaitTime(cur.attempt))]
        ELSE [logged EXCEPT !.pc = "done", !.status = 503, !.lastError = c.message]

\* AfterAttempt with one attempt more before it gives up
AfterAttemptOneMore(cur, outcome) ==
    LET c == Classify(outcome)
        logged == [cur EXCEPT !.log = Append(@, outcome.status),
                              !.outcomes = Append(@, outcome)]
    IN  IF ~c.throws
        THEN [logged EXCEPT !.pc = "done", !.status = c.status]
        ELSE IF IsAuthError(c.message)
        THEN [logged EXCEPT !.pc = "done", !.status = 500, !.lastError = c.message]
        ELSE IF cur.attempt < maxRetries + 1
        THEN [logged EXCEPT !.pc = "waiting", !.lastError = c.message,
                            !.waits = Append(@, WaitTime(cur.attempt))]
        ELSE [logged EXCEPT !.pc = "done", !.status = 503, !.lastError = c.message]

\* The handler from the settling of the axios.get to its response or to its
\* next await: the log takes the HTTP status of the attempt (0 for none), and
\* outcomes the way the attempt ended.
AfterAttempt(cur, outcome) ==
    LET c == Classify(outcome)
        logged == [cur EXCEPT !.log = Append(@, outcome.status),
                              !.outcomes = Append(@, outcome)]
    IN  IF ~c.throws
        THEN [logged EXCEPT !.pc = "done", !.status = c.status]
        ELSE IF IsAuthError(c.message)
        THEN [logged EXCEPT !.pc = "done", !.status = 500, !.lastError = c.message]
        ELSE IF cur.attempt < maxRetries
        THEN [logged EXCEPT !.pc = "waiting", !.lastError = c.message,
                            !.waits = Append(@, WaitTime(cur.attempt))]
        ELSE [logged EXCEPT !.pc = "done", !.status = 503, !.lastError = c.message]

\* the axios.get of the current attempt settles
UpstreamReturns(outcome) ==
    /\ relay.pc = "calling"
    /\ relay' = AfterAttempt(relay, outcome)
    /\ UNCHANGED <<auditCounts, config, req, accepted, afterReject, apiKey, phone>>

\* the setTimeout of the backoff fires: the loop starts the next attempt
BackoffElapses ==
    /\ relay.pc = "waiting"
    /\ relay' = [relay EXCEPT !.pc = "calling", !.attempt = @ + 1, !.calls = @ + 1]
    /\ UNCHANGED <<auditCounts, config, req, accepted, afterReject, apiKey, phone>>

\* the response has been sent: the handler has returned
RelayRelease ==
    /\ relay.pc = "done"
    /\ relay' = IdleRelay
    /\ UNCHANGED <<auditCounts, config, req, accepted, afterReject, apiKey, phone>>

(***************************************************************************)
(* Observers: what the steps above did, tallied for the quota properties.  *)
(* They read the program's variables and write none of them.               *)
(***************************************************************************)
\* slot r answered 200 in this step
Answered200(r) == req[r].pc # "done" /\ req'[r].pc = "done" /\ req'[r].status = 200

\* slot r answered 429 in this step
Answered429(r) == req[r].pc # "done" /\ req'[r].pc = "done" /\ req'[r].status = 429

\* a "just" lasts one step
Fade(k) == IF afterReject[k] = "just" THEN "no" ELSE afterReject[k]

\* a step of the handler in slot r
ObserveSegment(r) ==
    /\ accepted' =
         IF Answered200(r)
         THEN [accepted EXCEPT ![req'[r].clientIP] =
                   IF @ < MaxAccepted THEN @ + 1 ELSE MaxAccepted]
         ELSE accepted
    /\ afterReject' =
         [k \in Keys |->
             IF req[r].pc = "idle" /\ k = req'[r].clientIP
             THEN (IF Answered429(r) THEN "just" ELSE "no")
             ELSE Fade(k)]

ObserveReset ==
    /\ accepted' = [k \in Keys |-> 0]
    /\ afterReject' = [k \in Keys |-> IF afterReject[k] = "just" THEN "pending"
                                      ELSE afterReject[k]]

Unobserved == UNCHANGED <<accepted, afterReject>>

Configs == [ACCESS_TOKEN : BOOLEAN, INSTANCE_ID : BOOLEAN]

Init ==
    /\ auditCounts = << >>
    /\ config \in Configs
    /\ req = [r \in Req |-> IdleReq]
    /\ accepted = [k \in Keys |-> 0]
    /\ afterReject = [k \in Keys |-> "no"]
    /\ apiKey \in BOOLEAN
    /\ relay = IdleRelay
    /\ phone = IdlePhone

vars == <<auditCounts, config, req, accepted, afterReject, apiKey, relay, phone>>

\* one request at a time, every request body
Next ==
    \/ \E clientIP \in Keys, body \in Bodies : Dispatch(1, clientIP, body) /\ Unobserved
    \/ \E outcome \in DeliveryOutcomes : DeliveryReturns(1, outcome) /\ Unobserved
    \/ Release(1) /\ Unobserved
    \/ Reset /\ Unobserved

\* the dispatch handler alone: the relay stays idle
DispatchInit == Init /\ apiKey

Spec == DispatchInit /\ [][Next]_vars

\* overlapping requests: well-formed bodies with at most MaxRaceLen recipients
RaceBodies ==
    {b \in Bodies : /\ b.hasPhoneNumbers
                    /\ Len(b.phoneNumbers) <= MaxRaceLen
                    /\ \A i \in DOMAIN b.phoneNumbers :
                          b.phoneNumbers[i] \in {MobileNumber, ShortNumber}
                    /\ b.reportData = "report"}

RaceInit ==
    /\ DispatchInit
    /\ config = [ACCESS_TOKEN |-> TRUE, INSTANCE_ID |-> TRUE]

OverlapNext ==
    \/ \E r \in Req, clientIP \in Keys, body \in RaceBodies :
          Dispatch(r, clientIP, body) /\ Unobserved
    \/ \E r \in Req, outcome \in DeliveryOutcomes :
          DeliveryReturns(r, outcome) /\ Unobserved
    \/ \E r \in Req : Release(r) /\ Unobserved
    \/ Reset /\ Unobserved

OverlapSpec == RaceInit /\ [][OverlapNext]_vars

\* overlapping requests, with the tallies kept
RaceNext ==
    \/ \E r \in Req, clientIP \in Keys, body \in RaceBodies :
          Dispatch(r, clientIP, body) /\ ObserveSegment(r)
    \/ \E r \in Req, outcome \in DeliveryOutcomes :
          DeliveryReturns(r, outcome) /\ ObserveSegment(r)
    \/ \E r \in Req : Release(r) /\ Unobserved
    \/ Reset /\ ObserveReset

RaceSpec == RaceInit /\ [][RaceNext]_vars

\* the PageSpeed relay alone: no dispatch request arrives
RelayInit ==
    /\ Init
    /\ config = [ACCESS_TOKEN |-> TRUE, INSTANCE_ID |-> TRUE]

RelayNext ==
    \/ \E url \in Urls, strategy \in Strategies : RelayRequest(url, strategy)
    \/ \E outcome \in UpstreamOutcomes : UpstreamReturns(outcome)
    \/ BackoffElapses
    \/ RelayRelease

RelaySpec == RelayInit /\ [][RelayNext]_vars

\* formatPhoneNumber alone, on every argument of PhoneInputs
PhoneInit ==
    /\ auditCounts = << >>
    /\ config = [ACCESS_TOKEN |-> TRUE, INSTANCE_ID |-> TRUE]
    /\ req = [r \in Req |-> IdleReq]
    /\ accepted = [k \in Keys |-> 0]
    /\ afterReject = [k \in Keys |-> "no"]
    /\ apiKey = TRUE
    /\ relay = IdleRelay
    /\ \E input \in PhoneInputs :
          phone = [pc |-> "called", input |-> input, output |-> << >>]

PhoneNext == Format

PhoneSpec == PhoneInit /\ [][PhoneNext]_vars

\* the relay next to the dispatch handler: relay requests while requests of one
\* client with one recipient are dispatched and the reset timer fires.  Every
\* axios.get settles (axios times out after 60 s) and every setTimeout fires.
OneRecipient ==
    [hasPhoneNumbers |-> TRUE, phoneNumbers |-> <<MobileNumber>>,
     phoneNumber |-> << >>, reportData |-> "report"]

RelayLiveNext ==
    \/ RelayNext
    \/ Dispatch(1, 1, OneRecipient) /\ Unobserved
    \/ \E outcome \in {"sent", "throw"} : DeliveryReturns(1, outcome) /\ Unobserved
    \/ Release(1) /\ Unobserved
    \/ Reset /\ Unobserved

RelayLiveSpec ==
    /\ RelayInit
    /\ [][RelayLiveNext]_vars
    /\ WF_vars(\E outcome \in UpstreamOutcomes : UpstreamReturns(outcome))
    /\ WF_vars(BackoffElapses)

(***************************************************************************)
(* Properties of the dispatch handler                                      *)
(***************************************************************************)
\* a request arrives in slot r in this step
Arrives(r) == req[r].pc = "idle" /\ req'[r].pc # "idle"

\* slot r sends its response in this step
Answers(r) == req[r].pc # "done" /\ req'[r].pc = "done"

\* the recipients of a request body, and the indices of those that normalize
Recipients(body) ==
    IF body.hasPhoneNumbers THEN body.phoneNumbers
    ELSE IF body.phoneNumber = << >> THEN << >> ELSE <<body.phoneNumber>>

Normalizable(phoneNumbers, n) ==
    {i \in 1..n : formatPhoneNumber(phoneNumbers[i]) \notin {Null, Thrown}}

CredentialsSet == config.ACCESS_TOKEN /\ config.INSTANCE_ID

\* C1: once exactly AUDIT_LIMIT requests of a key have been answered 200 in
\* the current window, the next request arriving from that key is answered
\* 429 and the quota map stays as it is.
C1_RejectAfterLimit ==
    [][\A r \in Req :
          (Arrives(r) /\ accepted[req'[r].clientIP] = AUDIT_LIMIT)
          => (req'[r].status = 429 /\ auditCounts' = auditCounts)]_vars

\* C2: the reset empties the map in one step, and a key that was answered 429
\* in the step before a reset is not answered 429 on its first request after
\* that reset.
C2_ResetThenAllowed ==
    [][/\ Reset => DOMAIN auditCounts' = {}
       /\ \A r \in Req :
            (Arrives(r) /\ afterReject[req'[r].clientIP] = "pending")
            => req'[r].status # 429]_vars

\* C3: the step that answers 200 comes after every recipient has its result,
\* and it leaves the key's stored count one above the stored count of the
\* state before it.
C3_ChargeIsIncrement ==
    [][\A r \in Req :
          Answered200(r)
          => /\ Len(req'[r].results) = Len(req'[r].phoneNumbers)
             /\ req'[r].clientIP \in DOMAIN auditCounts'
             /\ auditCounts'[req'[r].clientIP] = GetCount(req'[r].clientIP) + 1]_vars

\* C4: the step that answers 429, 400 or 500 leaves the quota map as it is,
\* and the request it answers has made no delivery call.
C4_RejectionHasNoEffect ==
    [][\A r \in Req :
          (Answers(r) /\ req'[r].status \in {429, 400, 500})
          => (auditCounts' = auditCounts /\ req'[r].calls = 0)]_vars

\* C5: a request arriving from a key whose stored count is AUDIT_LIMIT or
\* more is answered 429 with that count and the limit, whatever its body and
\* the credentials; it makes no delivery call and the map stays as it is.
C5_GateFirst ==
    [][\A r \in Req :
          (Arrives(r) /\ GetCount(req'[r].clientIP) >= AUDIT_LIMIT)
          => /\ req'[r].pc = "done"
             /\ req'[r].status = 429
             /\ req'[r].current = GetCount(req'[r].clientIP)
             /\ req'[r].limit = AUDIT_LIMIT
             /\ req'[r].calls = 0
             /\ auditCounts' = auditCounts]_vars

\* a 429 for a body that validation would have refused twice over
C5_Witness ==
    /\ req[1].pc = "done" /\ req[1].status = 429
    /\ Len(req[1].body.phoneNumbers) > MaxPhoneNumbers
    /\ req[1].body.reportData = "undefined"

\* reportData that is absent or holds nothing: no field, "" or {}
EmptyReportData(reportData) ==
    reportData \in {"undefined", "emptyString", "emptyObject"}

\* reportData that JavaScript takes for false: no field, or ""
FalsyReportData(reportData) == reportData \in {"undefined", "emptyString"}

\* C6 as stated: past the gate, a request with no recipient, with missing or
\* empty reportData, or with more than three recipients is answered 400
\* without a delivery call; one with one to three recipients and reportData
\* that is not empty is not answered 400.
C6_AsStated ==
    \A r \in Req :
       LET q == req[r]
           n == Len(Recipients(q.body))
       IN  (q.pc # "idle" /\ q.count < AUDIT_LIMIT)
           => /\ (n = 0 \/ EmptyReportData(q.body.reportData) \/ n > 3)
                 => (q.status = 400 /\ q.calls = 0)
              /\ (n \in 1..3 /\ ~EmptyReportData(q.body.reportData))
                 => q.status # 400

\* C6, amended: past the gate, a request is answered 400, without a delivery
\* call, exactly if it has no recipient, if its reportData is absent or falsy
\* (an empty object is neither), or if it has more than three recipients.
C6_Validation ==
    \A r \in Req :
       LET q == req[r]
           n == Len(Recipients(q.body))
       IN  (q.pc # "idle" /\ q.count < AUDIT_LIMIT)
           => /\ (n = 0 \/ FalsyReportData(q.body.reportData) \/ n > 3)
                 => (q.pc = "done" /\ q.status = 400 /\ q.calls = 0)
              /\ (n \in 1..3 /\ ~FalsyReportData(q.body.reportData))
                 => q.status # 400

\* four mobile numbers with a well-formed report: refused, nothing sent
C6_Witness ==
    /\ req[1].pc = "done" /\ req[1].status = 400 /\ req[1].calls = 0
    /\ req[1].count < AUDIT_LIMIT
    /\ Len(req[1].body.phoneNumbers) = MaxPhoneNumbers + 1
    /\ req[1].body.reportData = "report"

\* C7: a 200 response carries one result per requested number, in order: the
\* failure result with the number as given for a number that does not
\* normalize, a result with the normalized number otherwise; and the
\* delivery calls made so far are one per normalizable number reached.
C7_OneResultPerRecipient ==
    \A r \in Req :
       LET q == req[r] IN
       /\ (q.pc = "done" /\ q.status = 200)
          => /\ Len(q.results) = Len(Recipients(q.body))
             /\ \A i \in 1..Len(q.results) :
                   LET number == Recipients(q.body)[i] IN
                   IF formatPhoneNumber(number) = Null
                   THEN q.results[i] = [phoneNumber |-> number, success |-> FALSE]
                   ELSE q.results[i].phoneNumber = formatPhoneNumber(number)
             /\ q.calls = Cardinality(Normalizable(Recipients(q.body), Len(q.results)))
       /\ q.pc = "awaiting"
          => q.calls = Cardinality(Normalizable(Recipients(q.body), Len(q.results) + 1))

\* three recipients, the first of which does not normalize: two calls
C7_Witness ==
    /\ req[1].pc = "done" /\ req[1].status = 200
    /\ Len(req[1].results) = 3
    /\ req[1].results[1] = [phoneNumber |-> ShortNumber, success |-> FALSE]
    /\ req[1].results[2].success /\ ~req[1].results[3].success
    /\ req[1].calls = 2

\* C8: a request with one to three recipients and a well-formed report that
\* got past the gate with the credentials set is answered 200, with a result
\* for every recipient, and the key is charged with it.
C8_AlwaysAnswered200 ==
    [][\A r \in Req :
          (/\ Answers(r)
           /\ req'[r].count < AUDIT_LIMIT
           /\ Len(Recipients(req'[r].body)) \in 1..3
           /\ req'[r].body.reportData = "report"
           /\ CredentialsSet)
          => /\ req'[r].status = 200
             /\ Len(req'[r].results) = Len(Recipients(req'[r].body))
             /\ req'[r].clientIP \in DOMAIN auditCounts'
             /\ auditCounts'[req'[r].clientIP] = req'[r].count + 1]_vars

(***************************************************************************)
(* Properties of the PageSpeed relay                                       *)
(***************************************************************************)
\* C9: the waits of one relay call are 1000 ms after the first failed attempt
\* and 2000 ms after the second, and none after the third; upstream statuses
\* 500, 500, 200 end in the response 200 after three calls and both waits.
C9_BackoffSchedule ==
    /\ relay.waits \in {<< >>, <<1000>>, <<1000, 2000>>}
    /\ relay.pc = "waiting" => Len(relay.waits) = relay.attempt
    /\ relay.pc = "calling" => Len(relay.waits) = relay.attempt - 1
    /\ relay.log = <<500, 500, 200>>
       => /\ relay.pc = "done" /\ relay.status = 200
          /\ relay.calls = 3
          /\ relay.waits = <<1000, 2000>>

C9_Witness ==
    relay.pc = "done" /\ relay.log = <<500, 500, 200>> /\ relay.status = 200

\* C10: an upstream status 403 or 400 is the last entry of the log: the relay
\* has answered with that status, has made no call since and has not waited
\* after it.
C10_TerminalStatus ==
    \A i \in 1..Len(relay.log) :
       relay.log[i] \in {400, 403}
       => /\ i = Len(relay.log)
          /\ relay.pc = "done" /\ relay.status = relay.log[i]
          /\ relay.calls = i
          /\ Len(relay.waits) = i - 1

\* 403 on the first attempt: one call, no wait
C10_Witness ==
    /\ relay.pc = "done" /\ relay.log = <<403>> /\ relay.status = 403
    /\ relay.calls = 1 /\ relay.waits = << >>

\* the message of the error an attempt raises: the one axios rejects with, or
\* the one thrown for a response with a status of 400 or more
RaisedMessage(outcome) ==
    IF outcome.status = 0 \/ outcome.status >= 500
    THEN AxiosErrorMessage(outcome)
    ELSE ApiErrorMessage(outcome)

\* an attempt that ended in a failure to be retried: no response, or a status
\* of 400 or more other than 400 and 403, and no "403" or "401" in the message
RetryableFailure(outcome) ==
    /\ outcome.status = 0 \/ (outcome.status >= 400 /\ outcome.status \notin {400, 403})
    /\ ~IsAuthError(RaisedMessage(outcome))

\* C11: the relay has answered 503 exactly if it has made three attempts and
\* each of them ended in a retryable failure; it never makes more than three
\* upstream calls, and a 503 never follows fewer than three.
C11_Exhausted503 ==
    /\ relay.calls <= 3
    /\ Len(relay.outcomes) <= relay.calls
    /\ relay.status = 503
       <=> /\ relay.pc = "done"
           /\ Len(relay.outcomes) = 3
           /\ \A i \in 1..3 : RetryableFailure(relay.outcomes[i])
    /\ relay.status = 503 => relay.calls = 3

\* a timeout, a 500 and a 404 in turn: 503 after the third call
C11_Witness ==
    /\ relay.pc = "done" /\ relay.status = 503
    /\ relay.log = <<0, 500, 404>> /\ relay.calls = 3

\* C12: a relay request without a url, with a url that is no absolute URL, or
\* with a strategy other than "mobile" and "desktop" is answered 400 without
\* an upstream call; a valid request is answered 500 without an upstream call
\* when the API key is not set.
C12_RelayValidation ==
    LET valid == /\ ParsesAsURL(relay.url)
                 /\ relay.strategy \in {"mobile", "desktop"}
    IN  relay.pc # "idle"
        => /\ ~valid => (relay.pc = "done" /\ relay.status = 400 /\ relay.calls = 0)
           /\ (valid /\ ~apiKey)
              => (relay.pc = "done" /\ relay.status = 500 /\ relay.calls = 0)

\* strategy "tablet" with a good url and the key set: 400, nothing called
C12_Witness ==
    /\ relay.pc = "done" /\ relay.status = 400 /\ relay.calls = 0
    /\ relay.strategy = "tablet" /\ ParsesAsURL(relay.url) /\ apiKey

(***************************************************************************)
(* Properties of formatPhoneNumber                                         *)
(***************************************************************************)
\* the digits of the argument of the call
Clean == StripNonDigits(phone.input)

IsDigits(s) == \A i \in 1..Len(s) : s[i] \in Digits

\* C13: for an argument with exactly 11 digits of which the first is "0",
\* formatPhoneNumber returns "91" followed by the ten digits after the zero.
C13_LeadingZero ==
    (phone.pc = "returned" /\ Len(Clean) = 11 /\ Clean[1] = "0")
    => phone.output = <<"9", "1">> \o Tail(Clean)

\* C14: formatPhoneNumber returns null for fewer than 10 or more than 15
\* digits, "91" and the digits for 10 digits starting with 6, 7, 8 or 9, the
\* bare digits for 10 digits starting otherwise, and the digits as they are
\* for 12 digits starting with 91; a result other than null is 10 to 15
\* digits and nothing else.
C14_Normalization ==
    phone.pc = "returned"
    => /\ (Len(Clean) < 10 \/ Len(Clean) > 15) => phone.output = Null
       /\ (Len(Clean) = 10 /\ Clean[1] \in {"6", "7", "8", "9"})
          => phone.output = <<"9", "1">> \o Clean
       /\ (Len(Clean) = 10 /\ Clean[1] \notin {"6", "7", "8", "9"})
          => phone.output = Clean
       /\ (Len(Clean) = 12 /\ SubSeq(Clean, 1, 2) = <<"9", "1">>)
          => phone.output = Clean
       /\ phone.output # Null
          => (IsDigits(phone.output) /\ Len(phone.output) \in 10..15)

\* "+91-..." written with twelve digits comes back as the twelve digits
C14_Witness ==
    /\ phone.pc = "returned"
    /\ Len(phone.input) = 13 /\ phone.input[1] = "+"
    /\ Len(Clean) = 12 /\ SubSeq(Clean, 1, 2) = <<"9", "1">>
    /\ phone.output = Clean

(***************************************************************************)
(* Properties of the quota map under overlapping requests                  *)
(***************************************************************************)
\* a step of the dispatch handler: the reset leaves every request as it is
HandlerStep == req' # req

\* C15: no step of a dispatch request lowers the stored count of a key.
C15_CountNeverLowered ==
    [][HandlerStep
       => \A k \in DOMAIN auditCounts :
             k \in DOMAIN auditCounts' /\ auditCounts'[k] >= auditCounts[k]]_vars

\* C16: requests of one key beyond the limit are answered 200 in one window,
\* and not because the gate lets a full count through: every request answered
\* 200 read a count below the limit when it passed the gate, also the one
\* answered when AUDIT_LIMIT requests of its key had been answered before it.
C16_PassedOnStaleCount ==
    [][\A r \in Req :
          Answered200(r)
          => /\ req'[r].count < AUDIT_LIMIT
             /\ accepted[req'[r].clientIP] >= AUDIT_LIMIT
                => req'[r].count < accepted[req'[r].clientIP]]_vars

\* four requests of one key answered 200 since the last reset
C16_Witness ==
    \E k \in Keys :
       /\ accepted[k] > AUDIT_LIMIT
       /\ \E r \in Req : /\ req[r].pc = "done" /\ req[r].status = 200
                         /\ req[r].clientIP = k

\* an attempt that raised an error: axios rejected, or the response had a
\* status of 400 or more other than 400 and 403
Raises(outcome) ==
    \/ outcome.status = 0
    \/ outcome.status >= 400 /\ outcome.status \notin {400, 403}

\* the message holds "403" or "401"
MentionsAuthCode(message) ==
    \E i \in 1..(Len(message) - 2) :
       /\ message[i] = "4" /\ message[i + 1] = "0"
       /\ message[i + 2] \in {"1", "3"}

\* C17: an attempt that raises an error with "403" or "401" in its message is
\* the last one: the relay has answered 500 with no call and no wait after
\* it, whichever attempt it is; after an attempt before the third that raises
\* an error with neither, the relay waits and calls again.
C17_AuthAbort ==
    \A i \in 1..Len(relay.outcomes) :
       LET outcome == relay.outcomes[i] IN
       Raises(outcome)
       => IF MentionsAuthCode(RaisedMessage(outcome))
          THEN /\ i = Len(relay.outcomes)
               /\ relay.pc = "done" /\ relay.status = 500
               /\ relay.calls = i
               /\ Len(relay.waits) = i - 1
          ELSE i < maxRetries
               => /\ Len(relay.waits) >= i
                  /\ \/ relay.pc = "waiting" /\ relay.attempt = i
                     \/ relay.calls > i

\* a 500 retried, then a 401 without a message of its own: 500 after two calls
C17_Witness ==
    /\ relay.pc = "done" /\ relay.status = 500
    /\ relay.log = <<500, 401>> /\ relay.outcomes[2].message = NoMessage
    /\ relay.calls = 2 /\ relay.waits = <<1000>>

\* C18: the stored count of every key present in the map is between 1 and
\* AUDIT_LIMIT, however many requests of the key were answered 200, and the
\* auditsRemaining of a 200 response is between 0 and AUDIT_LIMIT - 1.
C18_CountWithinLimit ==
    /\ \A k \in DOMAIN auditCounts : auditCounts[k] \in 1..AUDIT_LIMIT
    /\ \A r \in Req :
          (req[r].pc = "done" /\ req[r].status = 200)
          => req[r].auditsRemaining \in 0..(AUDIT_LIMIT - 1)

\* more requests answered 200 than the limit, the stored count at the limit
C18_Witness ==
    \E k \in Keys :
       /\ accepted[k] > AUDIT_LIMIT
       /\ k \in DOMAIN auditCounts /\ auditCounts[k] = AUDIT_LIMIT
       /\ \E r \in Req : /\ req[r].pc = "done" /\ req[r].status = 200
                         /\ req[r].clientIP = k /\ req[r].auditsRemaining = 0

\* C19: the stored count of a key never exceeds the number of requests of
\* that key that were charged since the last reset.
C19_WindowsSeparated ==
    \A k \in Keys : GetCount(k) <= accepted[k]

\* C20: a relay request that has arrived is answered in the end; the answer
\* has a status of 200, 400, 403, 500 or 503 and follows at most three
\* upstream calls and two waits; once sent it is the only one (the handler
\* does nothing more than return); and no step of the relay changes the
\* quota map.
C20_RelayAnswers ==
    /\ [](relay.pc # "idle" => <>(relay.pc = "done"))
    /\ [](/\ relay.calls <= 3 /\ Len(relay.waits) <= 2
          /\ relay.pc = "done" <=> relay.status \in {200, 400, 403, 500, 503}
          /\ relay.pc # "done" => relay.status = 0)
    /\ [][/\ relay.pc = "done" => relay' \in {relay, IdleRelay}
          /\ relay' # relay => auditCounts' = auditCounts]_vars

\* 503 after three calls and two waits, with a count stored in the quota map
C20_Witness ==
    /\ relay.pc = "done" /\ relay.status = 503
    /\ relay.calls = 3 /\ Len(relay.waits) = 2
    /\ 1 \in DOMAIN auditCounts /\ auditCounts[1] = 2

====
